---- MODULE Spec2Model ----
(***************************************************************************)
(* The prediction service of src/server.js: a Hapi server with two routes  *)
(* (POST /predict, GET /predict/histories), the inference pipeline         *)
(* predictClassification, the Firestore collection "predictions" and the   *)
(* onPreResponse extension that shapes every failure.                      *)
(*                                                                         *)
(* A request occupies a slot from the moment the server receives it until  *)
(* its response is sent.  Every await of the handlers is a step boundary,  *)
(* so the handlers of different slots interleave as they do on the event   *)
(* loop.                                                                   *)
(*                                                                         *)
(* Numbers that the code keeps as floating point are fixed-point values in *)
(* thousandths, together with NaN (a NaN among the model's activations)    *)
(* and -Infinity (where Math.max starts from).                             *)
(*                                                                         *)
(* Two specifications: Spec is the server, whose requests come in through  *)
(* the routes and the payload limit; SpecPipeline drives postPredictHandler *)
(* directly, with payloads of every length.  A write the store rejects is  *)
(* taken to have written nothing.                                          *)
(***************************************************************************)
EXTENDS Integers, Sequences, FiniteSets, TLC

VARIABLES reqs, store, uuids, clock, succeeded

vars == <<reqs, store, uuids, clock, succeeded>>

(* ------------------------------ bounds -------------------------------- *)

\* identifiers crypto.randomUUID() hands out during a run
MaxRecords == 2
\* instants the wall clock passes through during a run
MaxClock == 2
\* length of the array the model's forward pass returns
MaxOut == 2

\* requests that are open at the same time
Slots == {"a", "b"}

(* --------------------------- number values ---------------------------- *)

Num(v) == [k |-> "num", v |-> v]
NaN == [k |-> "nan", v |-> 0]
NegInf == [k |-> "-inf", v |-> 0]

\* the integer n as a fixed-point value (thousandths)
Fixed(n) == n * 1000

\* a < b of JavaScript numbers: false as soon as one side is NaN
Less(a, b) ==
    IF a.k = "nan" \/ b.k = "nan" THEN FALSE
    ELSE IF b.k = "-inf" THEN FALSE
    ELSE IF a.k = "-inf" THEN TRUE
    ELSE a.v < b.v

Greater(a, b) == Less(b, a)

\* a * n for a positive integer n
Times(a, n) == IF a.k = "num" THEN Num(a.v * n) ELSE a

Max2(a, b) ==
    IF a.k = "nan" \/ b.k = "nan" THEN NaN
    ELSE IF Less(a, b) THEN b ELSE a

\* Math.max(...score): the largest argument, NaN if any argument is NaN
RECURSIVE MathMax(_)
MathMax(score) ==
    IF score = <<>> THEN NegInf
    ELSE Max2(Head(score), MathMax(Tail(score)))

\* activations the model can return: 0, 0.005, 0.010 and NaN
OutVals == {Num(0), Num(5), Num(10), NaN}

\* what prediction.data() resolves to: the activations of one batch entry
ScoreArrays == UNION {[1..n -> OutVals] : n \in 1..MaxOut}

(* ------------------------------ strings ------------------------------- *)

SizeMessage == "Ukuran gambar terlalu besar. Maksimum 1MB."
PredictionFailedMessage == "Terjadi kesalahan dalam melakukan prediksi"
CancerSuggestion == "Segera periksa ke dokter!"
NonCancerSuggestion == "Penyakit kanker tidak terdeteksi."
PredictedMessage == "Model is predicted successfully"
CorrectPictureMessage == "Please use the correct picture"
NotFoundMessage == "Prediction not found"
PayloadMessage == "Payload content length greater than maximum allowed: 1000000"
\* the message of the 413 the payload parser raises beyond maxBytes
ParserTooLargeMessage == "Payload content length greater than maximum allowed: 1048576"
\* the message of the 404 the router raises for a path no route matches
RouterNotFoundMessage == "Not Found"
\* messages of the faults the libraries raise
DecodeFault == "decodeJpeg: invalid image"
PredictFault == "predict: bad tensor"
StoreFault == "firestore: unavailable"

NoMessage == ""
NoData == <<>>

(* --------------------------- identifiers ------------------------------ *)

\* a parameter the request does not carry
Undefined == 0 - 1
\* an id that is the id of no record ("nonexistent-id")
UnknownId == Undefined - 1

(* ------------------------------ errors -------------------------------- *)

DefaultStatusCode == 400

ClientError(message, statusCode) ==
    [name |-> "ClientError", message |-> message, statusCode |-> statusCode]

\* class InputError extends ClientError: new InputError(message)
InputError(message) ==
    [ClientError(message, DefaultStatusCode) EXCEPT
        !.name = "InputError", !.statusCode = DefaultStatusCode]

\* a fault thrown by a library: a plain Error, no statusCode
Fault(message) == [name |-> "Error", message |-> message, statusCode |-> Undefined]

(* ----------------------------- responses ------------------------------ *)

Body(status, message, data) == [status |-> status, message |-> message, data |-> data]
NoBody == Body("", NoMessage, NoData)

\* h.response(body) followed by response.code(code)
HResponse(body, code) ==
    [isBoom |-> FALSE, isInputError |-> FALSE, message |-> NoMessage,
     statusCode |-> Undefined, outputStatusCode |-> Undefined,
     code |-> code, body |-> body]

NoResponse == HResponse(NoBody, 0)

\* an error as onPreResponse sees it: the framework has made it a Boom error
\* whose output.statusCode is `status`; the error is still an instance of its class
BoomError(error, status) ==
    [isBoom |-> TRUE, isInputError |-> error.name = "InputError",
     message |-> error.message, statusCode |-> error.statusCode,
     outputStatusCode |-> status, code |-> 0, body |-> NoBody]

\* an error thrown out of a route handler reaches onPreResponse as a 500 Boom
Throw(error) == BoomError(error, 500)

\* onPreResponse answering every error as a client error
OnPreResponseClient(response) ==
    IF response.isBoom /\ response.outputStatusCode = 413
    THEN HResponse(Body("fail", PayloadMessage, NoData), 413)
    ELSE IF response.isBoom
    THEN HResponse(Body("fail", response.message, NoData), DefaultStatusCode)
    ELSE response

\* server.ext("onPreResponse", ...)
OnPreResponse(response) ==
    IF response.isBoom /\ response.outputStatusCode = 413
    THEN HResponse(Body("fail", PayloadMessage, NoData), 413)
    ELSE IF response.isInputError
    THEN HResponse(Body("fail", response.message, NoData), response.statusCode)
    ELSE IF response.isBoom
    THEN HResponse(Body("fail", response.message, NoData), response.outputStatusCode)
    ELSE response

(* ------------------------------- store -------------------------------- *)

EmptyStore == [i \in {} |-> NoData]

\* the document keyed by its timestamp instead of its id
DocSetByCreatedAt(st, id, data) ==
    [i \in (DOMAIN st) \cup {data.createdAt} |->
        IF i = data.createdAt THEN data ELSE st[i]]

\* predictCollection.doc(id).set(data)
DocSet(st, id, data) ==
    [i \in (DOMAIN st) \cup {id} |-> IF i = id THEN data ELSE st[i]]

modelData(id, data) ==
    [id |-> id,
     history |-> [result |-> data.result, createdAt |-> data.createdAt,
                  suggestion |-> data.suggestion, id |-> id]]

Min(S) == CHOOSE x \in S : \A y \in S : x <= y

\* snapshot.forEach(doc => allData.push(modelData(doc))): the documents in id order
RECURSIVE AllData(_, _)
AllData(st, ids) ==
    IF ids = {} THEN <<>>
    ELSE <<modelData(Min(ids), st[Min(ids)])>> \o AllData(st, ids \ {Min(ids)})

\* what getData returns: null, or a value (one view, or the array of all views)
Null == [isNull |-> TRUE, value |-> NoData]
Value(v) == [isNull |-> FALSE, value |-> v]

\* getData(id = null) against the collection st
getData(id, st) ==
    IF id # Undefined
    THEN IF id \notin DOMAIN st THEN Null ELSE Value(modelData(id, st[id]))
    ELSE Value(AllData(st, DOMAIN st))

(* ----------------------------- inference ------------------------------ *)

MaxImageBytes == 1024 * 1024

\* the size check against ten times the limit
TooLargeLax(image) == image.length > 10 * MaxImageBytes

TooLarge(image) == image.length > MaxImageBytes

\* a catch that throws on what it caught
Rethrow(error) == error

\* the catch of predictClassification: whatever was thrown, a new InputError
Catch(error) == InputError(PredictionFailedMessage)

ConfidenceScore(score) == Times(MathMax(score), 100)

\* the policy with the threshold test as <=
ClassificationInclusive(confidenceScore) ==
    LET result == [confidenceScore |-> confidenceScore, label |-> "Cancer",
                   suggestion |-> CancerSuggestion]
    IN  IF Less(confidenceScore, Num(Fixed(1))) \/ confidenceScore = Num(Fixed(1))
        THEN [result EXCEPT !.label = "Non-cancer", !.suggestion = NonCancerSuggestion]
        ELSE result

Classification(confidenceScore) ==
    LET result == [confidenceScore |-> confidenceScore, label |-> "Cancer",
                   suggestion |-> CancerSuggestion]
    IN  IF Less(confidenceScore, Num(Fixed(1)))
        THEN [result EXCEPT !.label = "Non-cancer", !.suggestion = NonCancerSuggestion]
        ELSE result

\* the message test as >= 0
ResponseMessageInclusive(confidenceScore) ==
    IF Greater(confidenceScore, Num(Fixed(0))) \/ confidenceScore = Num(Fixed(0))
    THEN PredictedMessage ELSE CorrectPictureMessage

ResponseMessage(confidenceScore) ==
    IF Greater(confidenceScore, Num(Fixed(0)))
    THEN PredictedMessage ELSE CorrectPictureMessage

\* an id generator that repeats itself
RepeatedUUID(issued) == 1

\* crypto.randomUUID(): an id no earlier call returned; `issued` counts the calls
RandomUUID(issued) == issued + 1

Data(id, result, createdAt) ==
    [id |-> id, result |-> result.label, suggestion |-> result.suggestion,
     confidenceScore |-> result.confidenceScore, createdAt |-> createdAt]

NoRecord == Data(Undefined, [label |-> "", suggestion |-> "", confidenceScore |-> NaN], 0)

(* ------------------------------ requests ------------------------------ *)

\* image payloads: a length in bytes, and whether the bytes decode as a JPEG
Lengths == {1024, MaxImageBytes, MaxImageBytes + 1}
Images == [length : Lengths, jpeg : BOOLEAN]
NoImage == [length |-> 0, jpeg |-> FALSE]

\* payload.maxBytes of the server's route defaults
MaxBytes == 1 * 1024 * 1024

\* the body of a multipart request: the image part and its framing
BodyLength(image) == image.length + 128

Routes == {[method |-> "POST", path |-> "/predict", handler |-> "postPredictHandler"],
           [method |-> "GET", path |-> "/predict/histories", handler |-> "getPredictHandler"]}

Idle == [pc |-> "free", handler |-> "", image |-> NoImage, id |-> Undefined,
         calls |-> 0, writes |-> 0, data |-> NoRecord, response |-> NoResponse]

Init ==
    /\ reqs = [r \in Slots |-> Idle]
    /\ store = EmptyStore
    /\ uuids = 0
    /\ clock = 1
    /\ succeeded = 0

TypeOK ==
    /\ uuids \in 0..MaxRecords
    /\ clock \in 1..MaxClock
    /\ succeeded \in 0..MaxRecords
    /\ DOMAIN store \subseteq 1..MaxRecords
    /\ \A r \in Slots :
          reqs[r].pc \in {"free", "handler", "predicting", "storing", "responded", "done"}

(* ------------------------------ transport ----------------------------- *)

\* requests a client can send: an image to POST /predict, or a GET of the
\* histories path, bare or followed by an id the client holds (the id of a stored
\* record, or an id of its own making)
PostRequests ==
    {[method |-> "POST", path |-> "/predict", image |-> i, id |-> Undefined] : i \in Images}

GetRequests(st) ==
    {[method |-> "GET", path |-> "/predict/histories", image |-> NoImage, id |-> Undefined]}
    \cup {[method |-> "GET", path |-> "/predict/histories/<id>", image |-> NoImage, id |-> i] :
            i \in (DOMAIN st) \cup {UnknownId}}

\* the route serving a request, as a set: empty when no route matches
Match(req) == {rt \in Routes : rt.method = req.method /\ rt.path = req.path}

\* request.params of a request served by route rt: neither route path has a parameter
Params(rt, req) == [id |-> Undefined]

Enter(handler, image, id) ==
    [Idle EXCEPT !.pc = "handler", !.handler = handler, !.image = image, !.id = id]

\* a request no handler runs for: only its path id stays of interest
Refuse(req, response) ==
    [Idle EXCEPT !.pc = "responded", !.id = req.id, !.response = response]

\* the server takes a request: routing, then the payload limit, then the handler
Receive(r) ==
    /\ reqs[r].pc = "free"
    /\ \E req \in PostRequests \cup GetRequests(store) :
          reqs' = [reqs EXCEPT ![r] =
              IF Match(req) = {}
              THEN Refuse(req, BoomError(Fault(RouterNotFoundMessage), 404))
              ELSE IF req.method = "POST" /\ BodyLength(req.image) > MaxBytes
              THEN Refuse(req, BoomError(Fault(ParserTooLargeMessage), 413))
              ELSE LET rt == CHOOSE x \in Match(req) : TRUE
                   IN  Enter(rt.handler, req.image, Params(rt, req).id)]
    /\ UNCHANGED <<store, uuids, clock, succeeded>>

\* the pipeline driven without the route in front: postPredictHandler called with
\* a payload of any length
Invoke(r) ==
    /\ reqs[r].pc = "free"
    /\ \E i \in Images :
          reqs' = [reqs EXCEPT ![r] = Enter("postPredictHandler", i, Undefined)]
    /\ UNCHANGED <<store, uuids, clock, succeeded>>

(* ------------------------------ handlers ------------------------------ *)

\* the handler throws: its locals are gone, the error is its outcome
Failed(q, response) ==
    [q EXCEPT !.pc = "responded", !.data = NoRecord, !.response = response]

\* postPredictHandler up to the first await of predictClassification: the size
\* check, the decode and the call of model.predict, inside the try
postPredictHandler(r) ==
    LET q == reqs[r] IN
    /\ q.pc = "handler" /\ q.handler = "postPredictHandler"
    /\ IF TooLarge(q.image)
       THEN reqs' = [reqs EXCEPT ![r] = Failed(q, Throw(Catch(InputError(SizeMessage))))]
       ELSE IF ~q.image.jpeg
       THEN reqs' = [reqs EXCEPT ![r] = Failed(q, Throw(Catch(Fault(DecodeFault))))]
       ELSE \/ reqs' = [reqs EXCEPT ![r] =
                    Failed([q EXCEPT !.calls = @ + 1], Throw(Catch(Fault(PredictFault))))]
            \/ reqs' = [reqs EXCEPT ![r] = [q EXCEPT !.calls = @ + 1, !.pc = "predicting"]]
    /\ UNCHANGED <<store, uuids, clock, succeeded>>

\* await prediction.data() settles: the rest of predictClassification, then the
\* handler builds the record and calls storeData
predictClassification(r) ==
    LET q == reqs[r] IN
    /\ q.pc = "predicting"
    /\ \/ /\ reqs' = [reqs EXCEPT ![r] = Failed(q, Throw(Catch(Fault(PredictFault))))]
          /\ UNCHANGED <<uuids, clock>>
       \/ /\ uuids < MaxRecords
          /\ \E score \in ScoreArrays, now \in clock..MaxClock :
                LET result == Classification(ConfidenceScore(score))
                    id == RandomUUID(uuids)
                    createdAt == now
                IN  /\ reqs' = [reqs EXCEPT ![r] =
                           [q EXCEPT !.pc = "storing", !.writes = @ + 1,
                                     !.data = Data(id, result, createdAt)]]
                    /\ clock' = now
          /\ uuids' = uuids + 1
    /\ UNCHANGED <<store, succeeded>>

\* await storeData(id, data) settles: the write is acknowledged and the handler
\* answers 201, or the write fails and the handler throws
storeData(r) ==
    LET q == reqs[r] IN
    /\ q.pc = "storing"
    /\ \/ /\ store' = DocSet(store, q.data.id, q.data)
          /\ reqs' = [reqs EXCEPT ![r] =
                 [q EXCEPT !.pc = "responded",
                           !.response = HResponse(
                               Body("success", ResponseMessage(q.data.confidenceScore), q.data),
                               201)]]
          /\ succeeded' = succeeded + 1
       \/ /\ reqs' = [reqs EXCEPT ![r] = Failed(q, Throw(Fault(StoreFault)))]
          /\ UNCHANGED <<store, succeeded>>
    /\ UNCHANGED <<uuids, clock>>

getPredictHandler(r) ==
    LET q == reqs[r]
        data == getData(q.id, store)
    IN
    /\ q.pc = "handler" /\ q.handler = "getPredictHandler"
    /\ \/ reqs' = [reqs EXCEPT ![r] = Failed(q, Throw(Fault(StoreFault)))]
       \/ reqs' = [reqs EXCEPT ![r] =
              [q EXCEPT !.pc = "responded",
                        !.response =
                            IF data.isNull
                            THEN HResponse(Body("fail", NotFoundMessage, NoData), 404)
                            ELSE HResponse(Body("success", NoMessage, data.value), 200)]]
    /\ UNCHANGED <<store, uuids, clock, succeeded>>

onPreResponse(r) ==
    /\ reqs[r].pc = "responded"
    /\ reqs' = [reqs EXCEPT ![r] =
           [@ EXCEPT !.pc = "done", !.response = OnPreResponse(@)]]
    /\ UNCHANGED <<store, uuids, clock, succeeded>>

\* the response leaves the server and the slot is free again
Reply(r) ==
    /\ reqs[r].pc = "done"
    /\ reqs' = [reqs EXCEPT ![r] = Idle]
    /\ UNCHANGED <<store, uuids, clock, succeeded>>

\* the steps of a submission
Submission(r) ==
    \/ postPredictHandler(r)
    \/ predictClassification(r)
    \/ storeData(r)

\* the server: requests come in through the routes
Next ==
    \E r \in Slots :
        \/ Receive(r)
        \/ Submission(r)
        \/ getPredictHandler(r)
        \/ onPreResponse(r)
        \/ Reply(r)

Spec == Init /\ [][Next]_vars

\* the prediction pipeline on its own: postPredictHandler is handed payloads of
\* every length, also those the route's maxBytes keeps away from it
NextPipeline ==
    \E r \in Slots :
        \/ Invoke(r)
        \/ Submission(r)
        \/ onPreResponse(r)
        \/ Reply(r)

SpecPipeline == Init /\ [][NextPipeline]_vars

(* ------------------------------- claims ------------------------------- *)

Answered(q) == q.pc \in {"responded", "done"}
Post(q) == q.handler = "postPredictHandler"
Get(q) == q.handler = "getPredictHandler"
Oversized(q) == q.image.length > 1024 * 1024

\* C1: a submission whose image is longer than 1,048,576 bytes fails with an
\* InputError of status 400 (answered as 400, status "fail"), and model.predict
\* is never called and nothing is written for it.
C1_OversizedFailsBeforeModel ==
    \A r \in Slots :
        LET q == reqs[r] IN
        (Post(q) /\ Oversized(q)) =>
            /\ q.calls = 0 /\ q.writes = 0
            /\ q.pc \in {"handler", "responded", "done"}
            /\ q.pc = "responded" =>
                   (q.response.isInputError /\ q.response.statusCode = 400)
            /\ q.pc = "done" =>
                   (q.response.code = 400 /\ q.response.body.status = "fail")

\* an oversized image that would decode was answered 400
C1_Witness ==
    \E r \in Slots :
        LET q == reqs[r] IN
        /\ Post(q) /\ Oversized(q) /\ q.image.jpeg
        /\ q.pc = "done" /\ q.response.code = 400 /\ q.calls = 0

\* C2: the answer to a submission whose image is longer than 1,048,576 bytes
\* carries the size-limit message ("... Maksimum 1MB."), not the generic
\* prediction-failure message.
C2_SizeMessageSurfaced ==
    \A r \in Slots :
        LET q == reqs[r] IN
        (Post(q) /\ Oversized(q) /\ q.pc = "done") =>
            /\ q.response.body.message = SizeMessage
            /\ q.response.body.message # PredictionFailedMessage

BelowOne(cs) == cs.k = "num" /\ cs.v < 1000
AboveZero(cs) == cs.k = "num" /\ cs.v > 0

PolicyHolds(d) ==
    IF BelowOne(d.confidenceScore)
    THEN d.result = "Non-cancer" /\ d.suggestion = NonCancerSuggestion
    ELSE d.result = "Cancer" /\ d.suggestion = CancerSuggestion

\* the requests that hold a classified record: about to write it, or answered 201
Classified(q) == q.pc = "storing" \/ (Answered(q) /\ q.response.code = 201)

\* C3: the label and suggestion of every classified record are Non-cancer and the
\* non-cancer suggestion exactly when confidenceScore < 1, and Cancer and the
\* see-a-doctor suggestion for every other score (1.0 and NaN included).
C3_ClassificationPolicy ==
    /\ \A r \in Slots : Classified(reqs[r]) => PolicyHolds(reqs[r].data)
    /\ \A i \in DOMAIN store : PolicyHolds(store[i])

\* one record at exactly 1.0 is Cancer while another at 0 is Non-cancer
C3_Witness ==
    \E r1, r2 \in Slots :
        /\ Classified(reqs[r1]) /\ Classified(reqs[r2])
        /\ reqs[r1].data.confidenceScore = Num(1000) /\ reqs[r1].data.result = "Cancer"
        /\ reqs[r2].data.confidenceScore = Num(0) /\ reqs[r2].data.result = "Non-cancer"

Became201(r) ==
    /\ reqs[r].pc = "storing"
    /\ reqs'[r].pc = "responded"
    /\ reqs'[r].response.code = 201

ReadAll(r) ==
    /\ reqs[r].pc = "handler" /\ Get(reqs[r])
    /\ reqs'[r].response.code = 200

\* C4: the store holds as many records as submissions have succeeded: a step
\* adds one record exactly when it answers a submission 201 and none otherwise,
\* and getPrediction() without an id answers 200 with a sequence of that length.
C4_RecordsEqualSuccesses ==
    /\ [](Cardinality(DOMAIN store) = succeeded)
    /\ [][/\ Cardinality(DOMAIN store') =
                Cardinality(DOMAIN store) + Cardinality({r \in Slots : Became201(r)})
          /\ succeeded' = succeeded + Cardinality({r \in Slots : Became201(r)})
          /\ \A r \in Slots :
                ReadAll(r) => Len(reqs'[r].response.body.data) = succeeded]_vars

\* after one submission succeeded and another lost its write, the list has one entry
C4_Witness ==
    \E r1, r2 \in Slots :
        /\ succeeded = 1 /\ Cardinality(DOMAIN store) = 1
        /\ Get(reqs[r1]) /\ reqs[r1].pc = "done" /\ reqs[r1].response.code = 200
        /\ Len(reqs[r1].response.body.data) = 1
        /\ Post(reqs[r2]) /\ reqs[r2].pc = "done" /\ reqs[r2].writes = 1
        /\ reqs[r2].response.code = 500

\* C5: getPrediction(id) with the id of a stored record answers with the
\* HistoryView of that record: id, history.result, history.suggestion and
\* history.createdAt equal to the record's fields.
C5_RoundTrip ==
    \A r \in Slots :
        LET q == reqs[r] IN
        (q.pc = "done" /\ q.id \in DOMAIN store) =>
            /\ q.response.code = 200
            /\ q.response.body.data = modelData(q.id, store[q.id])

\* C6: getPrediction(id) with an id of no stored record answers 404 with
\* {status: "fail", message: "Prediction not found"}.
C6_UnknownIdNotFound ==
    \A r \in Slots :
        LET q == reqs[r] IN
        (q.pc = "done" /\ q.id = UnknownId) =>
            /\ q.response.code = 404
            /\ q.response.body = Body("fail", NotFoundMessage, NoData)

Created(q) == Post(q) /\ Answered(q) /\ q.response.code = 201

\* C7: two successful submissions hold two records with distinct ids, each stored
\* as answered, and no step changes or removes a record the store holds.
C7_DistinctRecordsKept ==
    /\ [](\A r1, r2 \in Slots :
            (Created(reqs[r1]) /\ Created(reqs[r2]) /\ r1 # r2) =>
                LET d1 == reqs[r1].response.body.data
                    d2 == reqs[r2].response.body.data
                IN  /\ d1.id # d2.id
                    /\ d1.id \in DOMAIN store /\ store[d1.id] = d1
                    /\ d2.id \in DOMAIN store /\ store[d2.id] = d2)
    /\ [][\A i \in DOMAIN store : i \in DOMAIN store' /\ store'[i] = store[i]]_vars

\* two submissions of the same image, alike in everything but the id, both stored
C7_Witness ==
    \E r1, r2 \in Slots :
        /\ r1 # r2 /\ Created(reqs[r1]) /\ Created(reqs[r2])
        /\ reqs[r1].pc = "done" /\ reqs[r2].pc = "done"
        /\ reqs[r1].image = reqs[r2].image
        /\ reqs[r1].data.id # reqs[r2].data.id
        /\ [reqs[r1].data EXCEPT !.id = 0] = [reqs[r2].data EXCEPT !.id = 0]
        /\ {reqs[r1].data.id, reqs[r2].data.id} \subseteq DOMAIN store

\* C8: a submission that fails while decoding and one that fails in the forward
\* pass are answered alike: the same InputError, then 400 with {status: "fail",
\* message: the generic prediction-failure message}; the forward pass is called at
\* most once.
C8_OneFailureEnvelope ==
    \A r \in Slots :
        LET q == reqs[r] IN
        /\ q.calls <= 1
        /\ (Post(q) /\ Answered(q) /\ q.writes = 0 /\ ~Oversized(q)) =>
              /\ q.pc = "responded" =>
                    /\ q.response.isInputError
                    /\ q.response.statusCode = 400
                    /\ q.response.message = PredictionFailedMessage
              /\ q.pc = "done" =>
                    q.response = HResponse(Body("fail", PredictionFailedMessage, NoData), 400)

\* a decode failure and a forward-pass failure, answered with equal responses
C8_Witness ==
    \E r1, r2 \in Slots :
        /\ Post(reqs[r1]) /\ reqs[r1].pc = "done" /\ ~reqs[r1].image.jpeg
        /\ reqs[r1].calls = 0
        /\ Post(reqs[r2]) /\ reqs[r2].pc = "done" /\ reqs[r2].image.jpeg
        /\ reqs[r2].calls = 1 /\ reqs[r2].writes = 0
        /\ reqs[r1].response = reqs[r2].response

\* the submissions whose write to the store failed
WriteFailed(q) == Post(q) /\ Answered(q) /\ q.writes = 1 /\ q.response.code # 201

\* C9: a submission whose store write fails is not made an InputError: it is
\* answered {status: "fail", message: the fault's message} with the fault's status
\* (500), never 201, after a single write attempt, and no record of it is kept.
C9_StoreFaultPropagates ==
    \A r \in Slots :
        LET q == reqs[r] IN
        /\ q.writes <= 1
        /\ WriteFailed(q) =>
              /\ q.data = NoRecord
              /\ Cardinality(DOMAIN store) = succeeded
              /\ q.pc = "responded" =>
                    /\ q.response.isBoom /\ ~q.response.isInputError
                    /\ q.response.outputStatusCode = 500
              /\ q.pc = "done" =>
                    q.response = HResponse(Body("fail", StoreFault, NoData), 500)

\* a classified submission was answered 500 and the store is empty
C9_Witness ==
    \E r \in Slots :
        /\ WriteFailed(reqs[r]) /\ reqs[r].pc = "done"
        /\ reqs[r].response.code = 500
        /\ store = EmptyStore /\ uuids = 1

\* C10: a submission that was classified is answered 201 with status "success"
\* and its record as data, the record being in the store by then, whatever its
\* confidenceScore; the message alone depends on confidenceScore > 0. The only
\* other outcome is the store's fault.
C10_CosmeticBranch ==
    \A r \in Slots :
        LET q == reqs[r] IN
        (Post(q) /\ Answered(q) /\ q.writes = 1) =>
            \/ /\ q.response.code = 201
               /\ q.response.body.status = "success"
               /\ q.response.body.data = q.data
               /\ q.data.id \in DOMAIN store
               /\ store[q.data.id] = q.data
               /\ q.response.body.message =
                      IF AboveZero(q.data.confidenceScore)
                      THEN PredictedMessage ELSE CorrectPictureMessage
            \/ /\ q.response.code # 201
               /\ StoreFault \in {q.response.message, q.response.body.message}

\* a record at 0 answered with the use-correct-picture message beside a record at
\* 0.5 answered with the success message, both 201 and stored
C10_Witness ==
    \E r1, r2 \in Slots :
        /\ Created(reqs[r1]) /\ reqs[r1].pc = "done"
        /\ reqs[r1].data.confidenceScore = Num(0)
        /\ reqs[r1].response.body.message = CorrectPictureMessage
        /\ reqs[r1].data.id \in DOMAIN store
        /\ Created(reqs[r2]) /\ reqs[r2].pc = "done"
        /\ reqs[r2].data.confidenceScore = Num(500)
        /\ reqs[r2].response.body.message = PredictedMessage
        /\ reqs[r2].data.id \in DOMAIN store

====
